---- MODULE Spec2Model ----
(***************************************************************************)
(* Model of the collaboration platform's API layer (src/app.py) over its   *)
(* persisted tables (src/database.py).  Every table is a variable, every   *)
(* route handler an action that runs from its first query to its last      *)
(* commit.  Spec runs the handlers one at a time; SpecRace splits the      *)
(* handlers that read a precondition and write afterwards into their       *)
(* separate database round trips and interleaves them.                     *)
(***************************************************************************)
EXTENDS Integers, Sequences, FiniteSets, TLC

\* ------------------------------------------------------------------ bounds
MaxUsers == 3           \* rows of the users table
MaxPosts == 1           \* rows of the posts table
MaxSlotCount == 2       \* largest slot_count a create_post request sends
MaxSlotRequests == 2    \* rows of the slot_requests table
MaxConversations == 2   \* rows of the conversations table
MaxMessages == 3        \* rows of the messages table
MaxSlotId == 2          \* largest primary key handed out in post_slots
MaxSkills == 2          \* rows of the skills table beyond the seeded ones
MaxPool == 3            \* users in the candidate list of a matching call
MaxTopK == 3            \* largest top_k of a matching call
MaxMatches == 2         \* rows of the matches table
MaxHelpRequests == 3    \* rows of the help_requests table
MaxProjects == 1        \* rows of the projects table
NWorkers == 2           \* requests the server handles at the same time

VARIABLES users, skills, posts, post_slots, slot_requests, conversations,
          messages, resp, inflight, projects, help_requests, matches, call

\* what the handlers of posts, slots and conversations never touch: three
\* tables, and the record of a function called on its own
aside == <<projects, help_requests, matches, call>>
tables == <<users, skills, posts, post_slots, slot_requests, conversations,
            messages, projects, help_requests, matches>>
vars == <<users, skills, posts, post_slots, slot_requests, conversations,
          messages, resp, inflight, projects, help_requests, matches, call>>

\* ------------------------------------------------------------- input sets
\* ids a request can name: before a row is created its id names nothing
UserIds == 1..MaxUsers
PostIds == 1..MaxPosts
RequestIds == 1..MaxSlotRequests
ConversationIds == 1..MaxConversations
MessageIds == 1..MaxMessages
SlotIds == 1..MaxSlotId
SlotCounts == 1..MaxSlotCount
StatusInputs == {"accepted", "rejected", "pending"}
Emails == [i \in 1..(MaxUsers + 1) |-> <<"mail", i>>]
Usernames == [i \in 1..(MaxUsers + 1) |-> <<"name", i>>]

\* ---------------------------------------------------------------- helpers
Max2(a, b) == IF a >= b THEN a ELSE b
Min2(a, b) == IF a <= b THEN a ELSE b

\* the response of the handler that ran last: its route, its status code and,
\* for an HTTPException, its detail text
Response(op, status, detail) ==
    [op |-> op, status |-> status, detail |-> detail]

\* an HTTPException raised before any write: the session is closed
\* uncommitted and the tables keep their rows
Fail(op, status, detail) ==
    resp' = Response(op, status, detail) /\ UNCHANGED tables

UserExists(user_id) == user_id \in DOMAIN users
PostExists(post_id) == post_id \in DOMAIN posts

\* db.query(PostSlot).filter(PostSlot.post_id == post_id)
SlotsOf(slots, post_id) == {s \in slots : s.post_id = post_id}

\* ... .count()
FilledSlots(slots, post_id) == Cardinality(SlotsOf(slots, post_id))

\* filled_slots >= post.slot_count
SlotsFullOffByOne(slots, post_id) ==
    FilledSlots(slots, post_id) > posts[post_id].slot_count
SlotsFull(slots, post_id) ==
    FilledSlots(slots, post_id) >= posts[post_id].slot_count

\* the PostSlot of this user on this post, if any
HasSlot(slots, post_id, user_id) ==
    \E s \in slots : s.post_id = post_id /\ s.user_id = user_id

\* the primary key the store gives the next post_slots row: one more than
\* the largest key in use
NextSlotId(slots) ==
    IF slots = {} THEN 1
    ELSE (CHOOSE m \in {s.id : s \in slots} :
              \A s \in slots : s.id <= m) + 1

\* PostSlot(post_id=..., user_id=...)
PostSlotRow(slots, post_id, user_id) ==
    [id |-> NextSlotId(slots), post_id |-> post_id, user_id |-> user_id]

\* the conversations between two users, looked up in both orders
ConversationsBetweenOneOrder(convs, a, b) ==
    {c \in DOMAIN convs : convs[c].user1_id = a /\ convs[c].user2_id = b}
ConversationsBetween(convs, a, b) ==
    {c \in DOMAIN convs :
        \/ (convs[c].user1_id = a /\ convs[c].user2_id = b)
        \/ (convs[c].user1_id = b /\ convs[c].user2_id = a)}

\* datetime.utcnow(): the clock ticks once with every message written, so a
\* request runs at the time of the message it writes
utcnow == Len(messages) + 1

\* Conversation(user1_id=min(a, b), user2_id=max(a, b)); updated_at takes
\* its default
ConversationRowAsGiven(a, b) ==
    [user1_id |-> a, user2_id |-> b, updated_at |-> utcnow]
ConversationRow(a, b) ==
    [user1_id |-> Min2(a, b), user2_id |-> Max2(a, b), updated_at |-> utcnow]

\* Message(conversation_id, sender_id, is_initial_greeting, slot_request_id);
\* slot_request_id 0 is the NULL of the column; read and created_at take
\* their defaults
MessageRowUnlinked(conversation_id, sender_id, greeting, slot_request_id) ==
    [conversation_id |-> conversation_id, sender_id |-> sender_id,
     is_initial_greeting |-> greeting, slot_request_id |-> 0,
     read |-> FALSE, created_at |-> utcnow]
MessageRow(conversation_id, sender_id, greeting, slot_request_id) ==
    [conversation_id |-> conversation_id, sender_id |-> sender_id,
     is_initial_greeting |-> greeting, slot_request_id |-> slot_request_id,
     read |-> FALSE, created_at |-> utcnow]

\* the message ids of a conversation, oldest first
MessagesOf(msgs, conversation_id) ==
    SelectSeq([i \in DOMAIN msgs |-> i],
              LAMBDA i : msgs[i].conversation_id = conversation_id)

\* a worker that handles no request
Idle == [pc |-> "idle", op |-> "none", post_id |-> 0, request_id |-> 0,
         message_id |-> 0, status |-> "none", current_user_id |-> 0,
         other_user_id |-> 0, result |-> 0]

\* ------------------------------------------------------------------ skills
\* the database is SQLite (database.py 231): its lower() and its LIKE fold
\* the 26 letters of ASCII and leave every other character as it is
AsciiLower == [
    A |-> "a", B |-> "b", C |-> "c", D |-> "d", E |-> "e", F |-> "f",
    G |-> "g", H |-> "h", I |-> "i", J |-> "j", K |-> "k", L |-> "l",
    M |-> "m", N |-> "n", O |-> "o", P |-> "p", Q |-> "q", R |-> "r",
    S |-> "s", T |-> "t", U |-> "u", V |-> "v", W |-> "w", X |-> "x",
    Y |-> "y", Z |-> "z" ]
AsciiUpper == DOMAIN AsciiLower

LowerChar(c) == IF c \in AsciiUpper THEN AsciiLower[c] ELSE c

\* lower(name) LIKE lower(pattern): "%" stands for any run of characters,
\* "_" for any one character, there is no escape character
RECURSIVE Like(_, _)
Like(pattern, name) ==
    IF pattern = <<>> THEN name = <<>>
    ELSE IF Head(pattern) = "%"
         THEN Like(Tail(pattern), name)
              \/ (name # <<>> /\ Like(pattern, Tail(name)))
    ELSE IF name = <<>> THEN FALSE
    ELSE IF Head(pattern) = "_" THEN Like(Tail(pattern), Tail(name))
    ELSE LowerChar(Head(pattern)) = LowerChar(Head(name))
         /\ Like(Tail(pattern), Tail(name))

\* Skill.name.ilike(skill_name)
ILike(name, pattern) == Like(pattern, name)

SetMin(S) == CHOOSE m \in S : \A x \in S : m <= x

\* the loop over skill_names: look the name up, create the Skill when the
\* lookup finds none, append it to the owner's collection
RECURSIVE ResolveSkills(_, _, _)
ResolveSkills(names, table, acc) ==
    IF names = <<>> THEN [table |-> table, ids |-> acc]
    ELSE LET hits == {i \in DOMAIN table : ILike(table[i].name, Head(names))}
         IN IF hits # {}
            THEN ResolveSkills(Tail(names), table, Append(acc, SetMin(hits)))
            ELSE ResolveSkills(Tail(names),
                               Append(table, [name |-> Head(names)]),
                               Append(acc, Len(table) + 1))

\* the names startup_event seeds, each a sequence of characters
default_skills == <<
    <<"P", "y", "t", "h", "o", "n">>,
    <<"J", "a", "v", "a", "S", "c", "r", "i", "p", "t">>,
    <<"R", "e", "a", "c", "t">>,
    <<"N", "o", "d", "e", ".", "j", "s">>,
    <<"F", "a", "s", "t", "A", "P", "I">>,
    <<"S", "Q", "L">>,
    <<"M", "o", "n", "g", "o", "D", "B">>,
    <<"D", "o", "c", "k", "e", "r">>,
    <<"A", "W", "S">>,
    <<"G", "i", "t">>,
    <<"U", "I", "/", "U", "X", " ", "D", "e", "s", "i", "g", "n">>,
    <<"F", "i", "g", "m", "a">>,
    <<"P", "h", "o", "t", "o", "s", "h", "o", "p">>,
    <<"I", "l", "l", "u", "s", "t", "r", "a", "t", "o", "r">>,
    <<"M", "a", "c", "h", "i", "n", "e", " ", "L", "e", "a", "r", "n", "i",
      "n", "g">>,
    <<"D", "a", "t", "a", " ", "S", "c", "i", "e", "n", "c", "e">>,
    <<"T", "e", "n", "s", "o", "r", "F", "l", "o", "w">>,
    <<"P", "y", "T", "o", "r", "c", "h">>,
    <<"D", "e", "v", "O", "p", "s">>,
    <<"K", "u", "b", "e", "r", "n", "e", "t", "e", "s">>,
    <<"C", "I", "/", "C", "D">>,
    <<"L", "i", "n", "u", "x">>,
    <<"M", "a", "r", "k", "e", "t", "i", "n", "g">>,
    <<"S", "E", "O">>,
    <<"C", "o", "n", "t", "e", "n", "t", " ", "W", "r", "i", "t", "i", "n",
      "g">>,
    <<"S", "o", "c", "i", "a", "l", " ", "M", "e", "d", "i", "a">>,
    <<"P", "r", "o", "j", "e", "c", "t", " ", "M", "a", "n", "a", "g", "e",
      "m", "e", "n", "t">>,
    <<"A", "g", "i", "l", "e">>,
    <<"S", "c", "r", "u", "m">> >>

\* the loop of startup_event: a default name is added when no row has exactly
\* that name (Skill.name == skill_name compares case-sensitively)
RECURSIVE SeedSkills(_, _)
SeedSkills(names, table) ==
    IF names = <<>> THEN table
    ELSE IF \E i \in DOMAIN table : table[i].name = Head(names)
         THEN SeedSkills(Tail(names), table)
         ELSE SeedSkills(Tail(names), Append(table, [name |-> Head(names)]))

\* user_skills has the primary key (user_id, skill_id): appending one Skill
\* twice to a collection makes the flush of the commit fail
NoRepeat(ids) == \A i, j \in DOMAIN ids : ids[i] = ids[j] => i = j

SeqRange(q) == {q[i] : i \in DOMAIN q}

SkillNameInputs == {<<>>, <<<<"g", "o">>>>, <<<<"G", "O">>>>,
                    <<<<"g", "o">>, <<"G", "O">>>>}

\* ------------------------------------------------- optional values, JSON
\* an Optional[...] request field or a nullable column: None, or one value
None == <<>>
Some(x) == <<x>>

\* JSON text as its sequence of tokens: a punctuation mark, or a string or
\* number with its characters
Tok(t, v) == [t |-> t, v |-> v]

RECURSIVE JoinItems(_)
JoinItems(items) ==
    IF items = <<>> THEN <<>>
    ELSE IF Len(items) = 1 THEN <<Tok("string", items[1])>>
    ELSE <<Tok("string", Head(items)), Tok(",", <<>>)>>
         \o JoinItems(Tail(items))

\* json.dumps of a list of strings
JsonDumps(items) ==
    <<Tok("[", <<>>)>> \o JoinItems(items) \o <<Tok("]", <<>>)>>

\* the tokens between the brackets are values with commas between them
RECURSIVE IsItemList(_)
IsItemList(toks) ==
    \/ /\ Len(toks) = 1
       /\ toks[1].t \in {"string", "number"}
    \/ /\ Len(toks) >= 3
       /\ toks[1].t \in {"string", "number"}
       /\ toks[2].t = ","
       /\ IsItemList(SubSeq(toks, 3, Len(toks)))

\* json.loads: the value of a text, or ValueError for a text that is not JSON
JsonLoads(text) ==
    LET inner == SubSeq(text, 2, Len(text) - 1)
    IN IF Len(text) = 1 /\ text[1].t \in {"string", "number"}
       THEN [ok |-> TRUE, type |-> text[1].t, items |-> <<text[1].v>>]
       ELSE IF text = <<Tok("{", <<>>), Tok("}", <<>>)>>
       THEN [ok |-> TRUE, type |-> "dict", items |-> <<>>]
       ELSE IF /\ Len(text) >= 2
               /\ text[1].t = "[" /\ text[Len(text)].t = "]"
               /\ inner = <<>> \/ IsItemList(inner)
       THEN [ok |-> TRUE, type |-> "list",
             items |-> [i \in 1..((Len(inner) + 1) \div 2) |->
                           inner[2 * i - 1].v]]
       ELSE [ok |-> FALSE, type |-> "none", items |-> <<>>]

\* the empty list
EmptyList == [ok |-> TRUE, type |-> "list", items |-> <<>>]

\* app.py 33-40: json_str is a nullable text column
safe_json_loads(json_str) ==
    IF json_str = None \/ json_str[1] = <<>> THEN EmptyList
    ELSE IF JsonLoads(json_str[1]).ok THEN JsonLoads(json_str[1])
    ELSE EmptyList

\* str.strip() leaves nothing
Blank(chars) == \A i \in DOMAIN chars : chars[i] = " "

\* models.py 77-95 on a Python value v, in the shape json.loads gives it:
\* a list passes, a str is parsed as JSON text of its own (its characters
\* are one bare word here), and anything else gives None
parse_json_string(v) ==
    IF v.type = "none" THEN None
    ELSE IF v.type = "list" THEN Some(v.items)
    ELSE IF v.type = "string"
    THEN IF Blank(v.items[1]) THEN None
         ELSE LET parsed == JsonLoads(<<Tok("word", v.items[1])>>)
              IN IF parsed.ok /\ parsed.type = "list"
                 THEN Some(parsed.items)
                 ELSE None
    ELSE None

\* the user_dict that create_user (app.py 179-197) and get_user (291-310)
\* build from a row, as UserResponse validates it: the two JSON columns
UserResponse(user) ==
    [interests |-> parse_json_string(safe_json_loads(user.interests)),
     looking_for |-> parse_json_string(safe_json_loads(user.looking_for))]

\* ------------------------------------------------------------------- users
EmailTakenNever(email) == FALSE
EmailTaken(email) == \E u \in DOMAIN users : users[u].email = email

UsernameTaken(username) ==
    \E u \in DOMAIN users : users[u].username = username

\* a UserCreate body: the fields the model keeps, the optional ones at the
\* defaults of models.py 17-21
UserCreate(email, username, skill_names) ==
    [email |-> email, username |-> username, timezone |-> None,
     availability |-> None, skill_names |-> skill_names]

\* POST /api/users
create_user(user) ==
    /\ UNCHANGED <<inflight, aside>>
    /\ IF EmailTaken(user.email)
       THEN Fail("create_user", 400, "Email already registered")
       ELSE IF UsernameTaken(user.username)
       THEN Fail("create_user", 400, "Username already taken")
       ELSE LET r == ResolveSkills(user.skill_names, skills, <<>>)
            IN IF ~NoRepeat(r.ids)
               THEN Fail("create_user", 500, "Internal server error")
               ELSE /\ Len(users) < MaxUsers
                    /\ Len(r.table) <= Len(default_skills) + MaxSkills
                    /\ users' = Append(users,
                           [email |-> user.email, username |-> user.username,
                            timezone |-> user.timezone,
                            availability |-> user.availability,
                            interests |-> None, looking_for |-> None,
                            linkedin_url |-> None,
                            skills |-> SeqRange(r.ids)])
                    /\ skills' = r.table
                    /\ resp' = Response("create_user", 201, "")
                    /\ UNCHANGED <<posts, post_slots, slot_requests,
                                   conversations, messages>>

\* a UserUpdate body that gives no field (models.py 27-40)
UserUpdate ==
    [interests |-> None, looking_for |-> None, timezone |-> None,
     availability |-> None, linkedin_url |-> None, skill_names |-> None]

\* what an update leaves in a column: the given value, or the old one when
\* the field is None
UpdatedAlways(old, field) == field
Updated(old, field) == IF field = None THEN old ELSE field

\* PUT /api/users/{user_id}
update_user(user_id, user_update) ==
    /\ UNCHANGED <<inflight, aside>>
    /\ IF ~UserExists(user_id)
       THEN Fail("update_user", 404, "User not found")
       ELSE LET r == IF user_update.skill_names = None
                     THEN [table |-> skills, ids |-> <<>>]
                     ELSE ResolveSkills(user_update.skill_names[1], skills,
                                        <<>>)
                row == [users[user_id] EXCEPT
                          !.interests =
                              IF user_update.interests = None THEN @
                              ELSE Some(JsonDumps(user_update.interests[1])),
                          !.looking_for =
                              IF user_update.looking_for = None THEN @
                              ELSE Some(JsonDumps(user_update.looking_for[1])),
                          !.timezone = Updated(@, user_update.timezone),
                          !.availability =
                              Updated(@, user_update.availability),
                          !.linkedin_url =
                              Updated(@, user_update.linkedin_url),
                          !.skills =
                              IF user_update.skill_names = None THEN @
                              ELSE SeqRange(r.ids)]
            IN IF ~NoRepeat(r.ids)
               THEN Fail("update_user", 500, "Internal server error")
               ELSE /\ Len(r.table) <= Len(default_skills) + MaxSkills
                    /\ users' = [users EXCEPT ![user_id] = row]
                    /\ skills' = r.table
                    /\ resp' = Response("update_user", 200, "")
                    /\ UNCHANGED <<posts, post_slots, slot_requests,
                                   conversations, messages>>

\* the user_dict that update_user returns for the refreshed row (app.py
\* 358-373)
update_user_dict(user) ==
    [email |-> user.email, username |-> user.username,
     interests |-> safe_json_loads(user.interests),
     looking_for |-> safe_json_loads(user.looking_for),
     timezone |-> user.timezone, availability |-> user.availability,
     skills |-> user.skills]

\* the user_dict that get_user returns for the row it finds (app.py 291-309)
get_user_dict(user) ==
    [email |-> user.email, username |-> user.username,
     interests |-> safe_json_loads(user.interests),
     looking_for |-> safe_json_loads(user.looking_for),
     timezone |-> user.timezone, availability |-> user.availability,
     linkedin_url |-> user.linkedin_url,
     skills |-> user.skills]

\* response_model=UserResponse on a returned dict (models.py 55-95): the
\* validator on the two JSON fields, the default None for a missing
\* Optional field
ResponseModel(user_dict) ==
    [email |-> user_dict.email, username |-> user_dict.username,
     interests |-> parse_json_string(user_dict.interests),
     looking_for |-> parse_json_string(user_dict.looking_for),
     timezone |-> user_dict.timezone,
     availability |-> user_dict.availability,
     linkedin_url |-> IF "linkedin_url" \in DOMAIN user_dict
                      THEN user_dict.linkedin_url
                      ELSE None,
     skills |-> user_dict.skills]

\* ---------------------------------------------------------------- projects
\* POST /api/projects
create_project(owner_id, required_skill_names) ==
    /\ UNCHANGED <<inflight, help_requests, matches, call>>
    /\ IF ~UserExists(owner_id)
       THEN Fail("create_project", 404, "Owner not found")
       ELSE LET r == ResolveSkills(required_skill_names, skills, <<>>)
            IN IF ~NoRepeat(r.ids)
               THEN Fail("create_project", 500, "Internal server error")
               ELSE /\ Len(projects) < MaxProjects
                    /\ Len(r.table) <= Len(default_skills) + MaxSkills
                    /\ projects' = Append(projects,
                           [owner_id |-> owner_id,
                            required_skills |-> SeqRange(r.ids)])
                    /\ skills' = r.table
                    /\ resp' = Response("create_project", 201, "")
                    /\ UNCHANGED <<users, posts, post_slots, slot_requests,
                                   conversations, messages>>

\* ---------------------------------------------------------------- matching
\* str.lower of Python: every cased letter, the ones outside ASCII included
Lower(c) == IF c = "E-acute" THEN "e-acute" ELSE LowerChar(c)
LowerName(name) == [i \in DOMAIN name |-> Lower(name[i])]

\* the truth value of an optional string: None and "" are false
Truthy(x) == x # None /\ x[1] # <<>>

\* scores are counted in ten-thousandths; a quotient is rounded to the
\* nearest one
RoundDiv(a, b) == (2 * a + b) \div (2 * b)

\* matching.py 46-54, in ten-thousandths
AvailabilityScore(requester, candidate) ==
    IF Truthy(requester.availability) /\ Truthy(candidate.availability)
    THEN IF \/ LowerName(candidate.availability[1]) = <<"a", "n", "y">>
            \/ LowerName(requester.availability[1]) = <<"a", "n", "y">>
         THEN 2000
         ELSE IF /\ Truthy(requester.timezone) /\ Truthy(candidate.timezone)
                 /\ requester.timezone = candidate.timezone
         THEN 1500
         ELSE IF LowerName(requester.availability[1])
                    = LowerName(candidate.availability[1])
         THEN 1000
         ELSE 0
    ELSE 0

\* the match score of compute_complementary_match, in ten-thousandths;
\* required_skills is None or a list of names
MatchScore(requester, candidate, required_skills) ==
    LET requester_skills ==
            {LowerName(skills[k].name) : k \in requester.skills}
        candidate_skills ==
            {LowerName(skills[k].name) : k \in candidate.skills}
        needs_set ==
            IF required_skills # None /\ required_skills[1] # <<>>
            THEN {LowerName(required_skills[1][i]) :
                      i \in DOMAIN required_skills[1]}
            ELSE requester_skills
        shared_skills == requester_skills \cap candidate_skills
        complementary_skills == candidate_skills \ requester_skills
        covered_needs == needs_set \cap candidate_skills
    IN RoundDiv(5000 * Cardinality(covered_needs),
                Max2(1, Cardinality(needs_set)))
       + Min2(3000, 300 * Cardinality(complementary_skills))
       + Min2(450, 300 * Cardinality(shared_skills))
       + AvailabilityScore(requester, candidate) \div 20

\* i.lower().replace('#', '')
NormalizeInterest(i) == SelectSeq(LowerName(i), LAMBDA c : c # "#")

\* matching.py 108-136, in ten-thousandths; the arguments are lists of strings
calculate_interest_match(user1_interests, user2_interests) ==
    LET interests1 == {NormalizeInterest(user1_interests[k]) :
                          k \in {j \in DOMAIN user1_interests :
                                    user1_interests[j] # <<>>}}
        interests2 == {NormalizeInterest(user2_interests[k]) :
                          k \in {j \in DOMAIN user2_interests :
                                    user2_interests[j] # <<>>}}
    IN IF user1_interests = <<>> \/ user2_interests = <<>> THEN 0
       ELSE IF interests1 = {} \/ interests2 = {} THEN 0
       ELSE RoundDiv(10000 * Cardinality(interests1 \cap interests2),
                     Cardinality(interests1 \cup interests2))

\* matching.py 139-168: the interests columns are parsed again, a text that
\* is not JSON counts as no interests
get_interest_match_for_user(current_user, candidate) ==
    calculate_interest_match(safe_json_loads(current_user.interests).items,
                             safe_json_loads(candidate.interests).items)

\* GET /api/aimatch/{user_id}.  Every user is active (no handler clears
\* is_active) and an interests column holds NULL or the list update_user
\* wrote; the rows come in the order of their ids.
get_ai_match(user_id) ==
    /\ UNCHANGED <<inflight, call>>
    /\ IF ~UserExists(user_id)
       THEN Fail("get_ai_match", 404, "User not found")
       ELSE IF DOMAIN users = {user_id}
       THEN Fail("get_ai_match", 404,
                 "No other users available for matching")
       ELSE LET considered ==
                    {c \in DOMAIN users \ {user_id} :
                        /\ safe_json_loads(users[user_id].interests).items
                               # <<>>
                        /\ safe_json_loads(users[c].interests).items # <<>>}
                score(c) ==
                    get_interest_match_for_user(users[user_id], users[c])
                best_match ==
                    SetMin({c \in considered :
                               \A d \in considered : score(d) <= score(c)})
            IN IF considered = {}
               THEN Fail("get_ai_match", 404,
                         "No suitable interest-based matches found")
               ELSE /\ resp' = [op |-> "get_ai_match", status |-> 200,
                                detail |-> "",
                                body |-> [id |-> best_match,
                                          interest_match |->
                                              score(best_match)]]
                    /\ UNCHANGED tables

\* list.sort(key=score, reverse=True) is stable: an entry goes behind the
\* entries before it that score at least as much
InsertDescUnstable(sorted, x) ==
    LET ahead == {i \in DOMAIN sorted : sorted[i].score > x.score}
    IN SubSeq(sorted, 1, Cardinality(ahead)) \o <<x>>
       \o SubSeq(sorted, Cardinality(ahead) + 1, Len(sorted))
InsertDesc(sorted, x) ==
    LET ahead == {i \in DOMAIN sorted : sorted[i].score >= x.score}
    IN SubSeq(sorted, 1, Cardinality(ahead)) \o <<x>>
       \o SubSeq(sorted, Cardinality(ahead) + 1, Len(sorted))

RECURSIVE SortDesc(_, _)
SortDesc(todo, sorted) ==
    IF todo = <<>> THEN sorted
    ELSE SortDesc(Tail(todo), InsertDesc(sorted, Head(todo)))

\* matching.py 80-105
find_best_matches(requester, all_users, required_skills, top_k) ==
    LET kept == SelectSeq(all_users,
                    LAMBDA c : ~(c.id = requester.id \/ ~c.is_active))
        scored == [i \in DOMAIN kept |->
                      [candidate |-> kept[i],
                       score |-> MatchScore(requester, kept[i],
                                            required_skills)]]
        sorted == SortDesc(scored, <<>>)
    IN SubSeq(sorted, 1, Min2(top_k, Len(sorted)))

\* a function is called on its own: the call and what it returned
Return(fn, args, result) ==
    /\ call' = [fn |-> fn, args |-> args, result |-> result]
    /\ UNCHANGED <<tables, resp, inflight>>

\* the Match row of create_connection
MatchRowAccepted(requester_id, matched_user_id, project_id, score) ==
    [requester_id |-> requester_id, matched_user_id |-> matched_user_id,
     project_id |-> project_id, match_score |-> score, status |-> "accepted"]
MatchRow(requester_id, matched_user_id, project_id, score) ==
    [requester_id |-> requester_id, matched_user_id |-> matched_user_id,
     project_id |-> project_id, match_score |-> score, status |-> "pending"]

\* POST /api/connections
create_connection(requester_id, matched_user_id, project_id) ==
    /\ UNCHANGED <<inflight, projects, help_requests, call>>
    /\ IF ~UserExists(requester_id) \/ ~UserExists(matched_user_id)
       THEN Fail("create_connection", 404, "User not found")
       ELSE /\ Len(matches) < MaxMatches
            /\ matches' = Append(matches,
                   MatchRow(requester_id, matched_user_id, project_id,
                            MatchScore(users[requester_id],
                                       users[matched_user_id], None)))
            /\ resp' = Response("create_connection", 201, "")
            /\ UNCHANGED <<users, skills, posts, post_slots, slot_requests,
                           conversations, messages>>

\* ----------------------------------------------------------- help requests
\* a HelpRequest of this user on this post
HasHelpRequestNever(post_id, user_id) == FALSE
HasHelpRequest(post_id, user_id) ==
    \E h \in DOMAIN help_requests :
        /\ help_requests[h].post_id = post_id
        /\ help_requests[h].helper_user_id = user_id

\* POST /api/posts/{post_id}/request-help
request_help(post_id, helper_user_id) ==
    /\ UNCHANGED <<inflight, projects, matches, call>>
    /\ IF ~PostExists(post_id)
       THEN Fail("request_help", 404, "Post not found")
       ELSE IF posts[post_id].post_type # "help"
       THEN Fail("request_help", 400, "This endpoint is only for help posts")
       ELSE IF ~UserExists(helper_user_id)
       THEN Fail("request_help", 404, "User not found")
       ELSE IF posts[post_id].author_id = helper_user_id
       THEN Fail("request_help", 400,
                 "You cannot request to help on your own post")
       ELSE IF HasHelpRequest(post_id, helper_user_id)
       THEN Fail("request_help", 400,
                 "You have already requested to help on this post")
       ELSE /\ Len(help_requests) < MaxHelpRequests
            /\ help_requests' = Append(help_requests,
                   [post_id |-> post_id, helper_user_id |-> helper_user_id])
            /\ resp' = Response("request_help", 201, "")
            /\ UNCHANGED <<users, skills, posts, post_slots, slot_requests,
                           conversations, messages>>

\* ---------------------------------------------------------------- migration
\* ALTER TABLE ... ADD COLUMN on a table with these columns: SQLite refuses
\* a name the table has (the except clause prints and goes on)
AlterTableAddAgain(cols, name) == Append(cols, name)
AlterTable(cols, name) ==
    IF \E i \in DOMAIN cols : cols[i] = name THEN cols
    ELSE Append(cols, name)

\* the `if name not in existing_columns: try: ALTER ...` blocks of one table
\* in their order; existing_columns is read once, before the first block
RECURSIVE RunBlocks(_, _, _)
RunBlocks(names, existing_columns, cols) ==
    IF names = <<>> THEN cols
    ELSE RunBlocks(Tail(names), existing_columns,
                   IF \E i \in DOMAIN existing_columns :
                          existing_columns[i] = Head(names)
                   THEN cols
                   ELSE AlterTable(cols, Head(names)))

\* the columns the blocks of migrate_db name, block by block (linkedin_url
\* and github_url have two blocks each)
UsersBlocks == <<"password", "profile_picture", "interests", "looking_for",
                 "linkedin_url", "github_url", "profile_type",
                 "linkedin_url", "github_url">>

\* database.py 249-357 on a schema: per table None (no such table) or its
\* list of columns
migrate_db(schema) ==
    IF schema.users = None THEN schema
    ELSE [users |-> Some(RunBlocks(UsersBlocks, schema.users[1],
                                   schema.users[1])),
          posts |-> IF schema.posts = None THEN None
                    ELSE Some(RunBlocks(<<"post_type">>, schema.posts[1],
                                        schema.posts[1])),
          messages |-> IF schema.messages = None THEN None
                       ELSE Some(RunBlocks(<<"slot_request_id">>,
                                           schema.messages[1],
                                           schema.messages[1]))]

\* the server starts again: init_db and the seeding loop run on the tables
\* as they are
startup_event ==
    /\ skills' = SeedSkills(default_skills, skills)
    /\ UNCHANGED <<users, posts, post_slots, slot_requests, conversations,
                   messages, aside, resp, inflight>>

\* ----------------------------------------------------------- conversations
\* POST /api/conversations
create_conversation(sender_id, other_user_id) ==
    /\ UNCHANGED <<inflight, aside>>
    /\ IF ~UserExists(sender_id) \/ ~UserExists(other_user_id)
       THEN Fail("create_conversation", 404, "User not found")
       ELSE IF sender_id = other_user_id
       THEN Fail("create_conversation", 400, "Cannot message yourself")
       ELSE IF ConversationsBetween(conversations, sender_id,
                                    other_user_id) # {}
       THEN Fail("create_conversation", 400, "Conversation already exists")
       ELSE /\ Len(conversations) < MaxConversations
            /\ Len(messages) < MaxMessages
            /\ conversations' = Append(conversations,
                   ConversationRow(sender_id, other_user_id))
            /\ messages' = Append(messages,
                   MessageRow(Len(conversations) + 1, sender_id, TRUE, 0))
            /\ resp' = Response("create_conversation", 201, "")
            /\ UNCHANGED <<users, skills, posts, post_slots, slot_requests>>

\* GET /api/conversations/{user_id}: the ids of the user's conversations,
\* order_by(Conversation.updated_at.desc())
get_conversations(user_id) ==
    LET mine == {c \in DOMAIN conversations :
                    \/ conversations[c].user1_id = user_id
                    \/ conversations[c].user2_id = user_id}
    IN CHOOSE q \in [1..Cardinality(mine) -> mine] :
           /\ \A i, j \in DOMAIN q : q[i] = q[j] => i = j
           /\ \A i, j \in DOMAIN q :
                 i < j => conversations[q[i]].updated_at
                              >= conversations[q[j]].updated_at

\* the messages of a conversation that get_messages marks: not sent by the
\* viewer and not read yet
UnreadOfAnySender(conversation_id, user_id) ==
    {m \in DOMAIN messages :
        /\ messages[m].conversation_id = conversation_id
        /\ ~messages[m].read}
Unread(conversation_id, user_id) ==
    {m \in DOMAIN messages :
        /\ messages[m].conversation_id = conversation_id
        /\ messages[m].sender_id # user_id
        /\ ~messages[m].read}

\* GET /api/conversations/{conversation_id}/messages
get_messages(conversation_id, user_id) ==
    /\ UNCHANGED <<inflight, aside>>
    /\ IF conversation_id \notin DOMAIN conversations
       THEN Fail("get_messages", 404, "Conversation not found")
       ELSE IF /\ conversations[conversation_id].user1_id # user_id
               /\ conversations[conversation_id].user2_id # user_id
       THEN Fail("get_messages", 403,
                 "Not authorized to view this conversation")
       ELSE /\ messages' =
                   [m \in DOMAIN messages |->
                       IF m \in Unread(conversation_id, user_id)
                       THEN [messages[m] EXCEPT !.read = TRUE]
                       ELSE messages[m]]
            /\ resp' = Response("get_messages", 200, "")
            /\ UNCHANGED <<users, skills, posts, post_slots, slot_requests,
                           conversations>>

\* the "wait for a reply" rule: the conversation holds one message, an
\* initial greeting of this sender
MustWaitForReply(conversation_id, sender_id) ==
    LET existing_messages == MessagesOf(messages, conversation_id)
    IN /\ Len(existing_messages) = 1
       /\ messages[existing_messages[1]].is_initial_greeting
       /\ messages[existing_messages[1]].sender_id = sender_id

\* POST /api/conversations/{conversation_id}/messages
send_message(conversation_id, sender_id, is_initial_greeting) ==
    /\ UNCHANGED <<inflight, aside>>
    /\ IF conversation_id \notin DOMAIN conversations
       THEN Fail("send_message", 404, "Conversation not found")
       ELSE IF /\ conversations[conversation_id].user1_id # sender_id
               /\ conversations[conversation_id].user2_id # sender_id
       THEN Fail("send_message", 403,
                 "Not authorized to send messages in this conversation")
       ELSE IF MustWaitForReply(conversation_id, sender_id)
       THEN Fail("send_message", 400,
                 "Please wait for the other user to reply to your initial message")
       ELSE /\ Len(messages) < MaxMessages
            /\ messages' = Append(messages,
                   MessageRow(conversation_id, sender_id,
                              is_initial_greeting, 0))
            /\ conversations' = [conversations EXCEPT
                                    ![conversation_id].updated_at = utcnow]
            /\ resp' = Response("send_message", 201, "")
            /\ UNCHANGED <<users, skills, posts, post_slots, slot_requests>>

\* ------------------------------------------------------------------- posts
\* POST /api/posts
create_post(author_id, slot_count, post_type) ==
    /\ UNCHANGED <<inflight, aside>>
    /\ IF ~UserExists(author_id)
       THEN Fail("create_post", 404, "User not found")
       ELSE /\ Len(posts) < MaxPosts
            /\ posts' = Append(posts,
                   [author_id |-> author_id, slot_count |-> slot_count,
                    post_type |-> post_type])
            /\ resp' = Response("create_post", 201, "")
            /\ UNCHANGED <<users, skills, post_slots, slot_requests,
                           conversations, messages>>

\* the requester is the post's author
IsOwnPostNever(post_id, user_id) == FALSE
IsOwnPost(post_id, user_id) == posts[post_id].author_id = user_id

\* a SlotRequest of this user on this post with status pending or accepted
HasActiveRequest(post_id, user_id) ==
    \E r \in DOMAIN slot_requests :
        /\ slot_requests[r].post_id = post_id
        /\ slot_requests[r].requester_user_id = user_id
        /\ slot_requests[r].status \in {"pending", "accepted"}

\* POST /api/posts/{post_id}/request-slot
request_slot(post_id, user_id) ==
    /\ UNCHANGED <<inflight, aside>>
    /\ IF ~PostExists(post_id)
       THEN Fail("request_slot", 404, "Post not found")
       ELSE IF ~UserExists(user_id)
       THEN Fail("request_slot", 404, "User not found")
       ELSE IF IsOwnPost(post_id, user_id)
       THEN Fail("request_slot", 400,
                 "You cannot request a slot in your own post")
       ELSE IF HasActiveRequest(post_id, user_id)
       THEN Fail("request_slot", 400,
                 "You have already requested a slot in this post")
       ELSE IF HasSlot(post_slots, post_id, user_id)
       THEN Fail("request_slot", 400, "You already have a slot in this post")
       ELSE IF SlotsFull(post_slots, post_id)
       THEN Fail("request_slot", 400, "All slots are already filled")
       ELSE LET author == posts[post_id].author_id
                existing == ConversationsBetween(conversations, user_id,
                                                 author)
            IN /\ Len(slot_requests) < MaxSlotRequests
               /\ Len(messages) < MaxMessages
               /\ slot_requests' = Append(slot_requests,
                      [post_id |-> post_id, requester_user_id |-> user_id,
                       status |-> "pending"])
               /\ IF existing # {}
                  THEN \E c \in existing :
                         /\ messages' = Append(messages,
                                MessageRow(c, user_id, FALSE,
                                           Len(slot_requests) + 1))
                         /\ UNCHANGED conversations
                  ELSE /\ Len(conversations) < MaxConversations
                       /\ conversations' = Append(conversations,
                              ConversationRow(user_id, author))
                       /\ messages' = Append(messages,
                              MessageRow(Len(conversations) + 1, user_id,
                                         FALSE, Len(slot_requests) + 1))
               /\ resp' = Response("request_slot", 200, "")
               /\ UNCHANGED <<users, skills, posts, post_slots>>

\* ---------------------------------------------------- slot-request decision
\* slot_request.status = update_data.status
WithStatusUnsaved(requests, request_id, status) == requests
WithStatus(requests, request_id, status) ==
    [requests EXCEPT ![request_id].status = status]

\* post.author_id != current_user_id
NotAuthorNever(post_id, current_user_id) == FALSE
NotAuthor(post_id, current_user_id) ==
    posts[post_id].author_id # current_user_id

\* PUT /api/posts/{post_id}/slot-requests/{request_id}
update_slot_request(post_id, request_id, status, current_user_id) ==
    /\ UNCHANGED <<inflight, aside>>
    /\ IF ~PostExists(post_id)
       THEN Fail("update_slot_request", 404, "Post not found")
       ELSE IF NotAuthor(post_id, current_user_id)
       THEN Fail("update_slot_request", 403,
                 "Only the post author can manage slot requests")
       ELSE IF ~(/\ request_id \in DOMAIN slot_requests
                 /\ slot_requests[request_id].post_id = post_id)
       THEN Fail("update_slot_request", 404, "Slot request not found")
       ELSE IF status \notin {"accepted", "rejected"}
       THEN Fail("update_slot_request", 400,
                 "Status must be 'accepted' or 'rejected'")
       ELSE /\ slot_requests' = WithStatus(slot_requests, request_id, status)
            /\ UNCHANGED <<users, skills, posts, conversations, messages>>
            /\ IF status = "accepted"
               THEN IF SlotsFull(post_slots, post_id)
                    THEN /\ resp' = Response("update_slot_request", 400,
                                     "All slots are already filled")
                         /\ UNCHANGED post_slots
                    ELSE /\ NextSlotId(post_slots) <= MaxSlotId
                         /\ post_slots' = post_slots \cup
                                {PostSlotRow(post_slots, post_id,
                                    slot_requests[request_id]
                                        .requester_user_id)}
                         /\ resp' = Response("update_slot_request", 200, "")
               ELSE /\ resp' = Response("update_slot_request", 200, "")
                    /\ UNCHANGED post_slots

\* PUT /api/messages/{message_id}/slot-request
handle_slot_request_from_message(message_id, status, current_user_id) ==
    /\ UNCHANGED <<inflight, aside>>
    /\ IF message_id \notin DOMAIN messages
       THEN Fail("handle_slot_request_from_message", 404,
                 "Message not found")
       ELSE IF messages[message_id].slot_request_id = 0
       THEN Fail("handle_slot_request_from_message", 400,
                 "This message is not a slot request")
       ELSE IF messages[message_id].slot_request_id
                   \notin DOMAIN slot_requests
       THEN Fail("handle_slot_request_from_message", 404,
                 "Slot request not found")
       ELSE LET request_id == messages[message_id].slot_request_id
                post_id == slot_requests[request_id].post_id
                requester == slot_requests[request_id].requester_user_id
                reply == MessageRow(messages[message_id].conversation_id,
                                    current_user_id, FALSE, 0)
            IN IF ~PostExists(post_id)
               THEN Fail("handle_slot_request_from_message", 404,
                         "Post not found")
               ELSE IF NotAuthor(post_id, current_user_id)
               THEN Fail("handle_slot_request_from_message", 403,
                         "Only the post author can manage slot requests")
               ELSE IF status \notin {"accepted", "rejected"}
               THEN Fail("handle_slot_request_from_message", 400,
                         "Status must be 'accepted' or 'rejected'")
               ELSE
                 /\ slot_requests' =
                        WithStatus(slot_requests, request_id, status)
                 /\ UNCHANGED <<users, skills, posts>>
                 /\ IF status = "accepted"
                    THEN IF SlotsFull(post_slots, post_id)
                         THEN /\ resp' = Response(
                                   "handle_slot_request_from_message", 400,
                                   "All slots are already filled")
                              /\ UNCHANGED <<post_slots, messages,
                                             conversations>>
                         ELSE IF HasSlot(post_slots, post_id, requester)
                         THEN /\ resp' = Response(
                                   "handle_slot_request_from_message", 400,
                                   "User already has a slot in this post")
                              /\ UNCHANGED <<post_slots, messages,
                                             conversations>>
                         ELSE /\ NextSlotId(post_slots) <= MaxSlotId
                              /\ Len(messages) < MaxMessages
                              /\ post_slots' = post_slots \cup
                                     {PostSlotRow(post_slots, post_id,
                                                  requester)}
                              /\ messages' = Append(messages, reply)
                              /\ conversations' = [conversations EXCEPT
                                     ![reply.conversation_id].updated_at =
                                         utcnow]
                              /\ resp' = Response(
                                   "handle_slot_request_from_message", 200, "")
                    ELSE /\ Len(messages) < MaxMessages
                         /\ messages' = Append(messages, reply)
                         /\ conversations' = [conversations EXCEPT
                                ![reply.conversation_id].updated_at = utcnow]
                         /\ resp' = Response(
                                "handle_slot_request_from_message", 200, "")
                         /\ UNCHANGED post_slots

\* DELETE /api/posts/{post_id}/slots/{slot_id}
remove_slot(post_id, slot_id, user_id) ==
    /\ UNCHANGED <<inflight, aside>>
    /\ IF ~PostExists(post_id)
       THEN Fail("remove_slot", 404, "Post not found")
       ELSE IF ~(\E s \in post_slots : s.id = slot_id /\ s.post_id = post_id)
       THEN Fail("remove_slot", 404, "Slot not found")
       ELSE LET slot == CHOOSE s \in post_slots :
                            s.id = slot_id /\ s.post_id = post_id
            IN IF slot.user_id # user_id
                  /\ posts[post_id].author_id # user_id
               THEN Fail("remove_slot", 403,
                         "Not authorized to remove this slot")
               ELSE /\ post_slots' = post_slots \ {slot}
                    /\ resp' = Response("remove_slot", 200, "")
                    /\ UNCHANGED <<users, skills, posts, slot_requests,
                                   conversations, messages>>

\* ------------------------------------------------- the one-at-a-time service
Workers == 1..NWorkers

\* the state when the first request arrives: startup_event (app.py 71-91) has
\* created the tables and seeded the default skills
Init ==
    /\ users = <<>>
    /\ skills = SeedSkills(default_skills, <<>>)
    /\ posts = <<>>
    /\ post_slots = {}
    /\ slot_requests = <<>>
    /\ conversations = <<>>
    /\ messages = <<>>
    /\ projects = <<>>
    /\ help_requests = <<>>
    /\ matches = <<>>
    /\ call = [fn |-> "none"]
    /\ resp = Response("none", 0, "")
    /\ inflight = [w \in Workers |-> Idle]

\* a handler starts when the response of the one before it has been sent
Ready == resp.op = "none"

\* the response leaves and get_db closes the session
close_session ==
    /\ resp.op # "none"
    /\ resp' = Response("none", 0, "")
    /\ UNCHANGED <<tables, inflight, call>>

\* the n-th sign-up sends a fresh email and username, or the email of the
\* first user again
SignUp ==
    /\ Ready
    /\ \E e \in {Emails[Len(users) + 1], Emails[1]} :
           create_user(UserCreate(e, Usernames[Len(users) + 1], <<>>))

CreateConversation ==
    /\ Ready
    /\ \E s, o \in UserIds : create_conversation(s, o)

SendMessage ==
    /\ Ready
    /\ \E c \in ConversationIds, s \in UserIds, g \in BOOLEAN :
           send_message(c, s, g)

CreatePost ==
    /\ Ready
    /\ \E a \in UserIds, n \in SlotCounts : create_post(a, n, "regular")

RequestSlot ==
    /\ Ready
    /\ \E p \in PostIds, u \in UserIds : request_slot(p, u)

UpdateSlotRequest ==
    /\ Ready
    /\ \E p \in PostIds, r \in RequestIds, st \in StatusInputs,
          u \in UserIds :
           update_slot_request(p, r, st, u)

HandleSlotRequestFromMessage ==
    /\ Ready
    /\ \E m \in MessageIds, st \in StatusInputs, u \in UserIds :
           handle_slot_request_from_message(m, st, u)

RemoveSlot ==
    /\ Ready
    /\ \E p \in PostIds, s \in SlotIds, u \in UserIds : remove_slot(p, s, u)

Next ==
    \/ SignUp
    \/ CreateConversation
    \/ SendMessage
    \/ CreatePost
    \/ RequestSlot
    \/ UpdateSlotRequest
    \/ HandleSlotRequestFromMessage
    \/ RemoveSlot
    \/ close_session

Spec == Init /\ [][Next]_vars

\* ------------------------------------------------- interleaved handlers
\* The handlers below are the ones above cut at their database round trips:
\* a query, a commit and the next query are separate steps, and steps of
\* different workers interleave.  Nothing is locked between them.

\* the handler of worker w returns: its response waits to be sent
Done(w, op, result) ==
    inflight' = [inflight EXCEPT ![w] =
                    [Idle EXCEPT !.pc = "done", !.op = op,
                                 !.result = result]]

\* update_slot_request up to the commit of the new status
begin_update_slot_request(w, post_id, request_id, status, current_user_id) ==
    /\ inflight[w].pc = "idle"
    /\ UNCHANGED <<aside, users, skills, posts, post_slots, conversations,
                   messages, resp>>
    /\ IF ~PostExists(post_id)
       THEN Done(w, "update_slot_request", 404) /\ UNCHANGED slot_requests
       ELSE IF NotAuthor(post_id, current_user_id)
       THEN Done(w, "update_slot_request", 403) /\ UNCHANGED slot_requests
       ELSE IF ~(/\ request_id \in DOMAIN slot_requests
                 /\ slot_requests[request_id].post_id = post_id)
       THEN Done(w, "update_slot_request", 404) /\ UNCHANGED slot_requests
       ELSE IF status \notin {"accepted", "rejected"}
       THEN Done(w, "update_slot_request", 400) /\ UNCHANGED slot_requests
       ELSE /\ slot_requests' = WithStatus(slot_requests, request_id, status)
            /\ IF status = "accepted"
               THEN inflight' = [inflight EXCEPT ![w] =
                        [Idle EXCEPT !.pc = "count",
                                     !.op = "update_slot_request",
                                     !.post_id = post_id,
                                     !.request_id = request_id,
                                     !.status = status,
                                     !.current_user_id = current_user_id]]
               ELSE Done(w, "update_slot_request", 200)

\* handle_slot_request_from_message up to the commit of the new status
begin_handle_slot_request_from_message(w, message_id, status, current_user_id) ==
    /\ inflight[w].pc = "idle"
    /\ UNCHANGED <<aside, users, skills, posts, post_slots, conversations,
                   messages, resp>>
    /\ IF message_id \notin DOMAIN messages
       THEN /\ Done(w, "handle_slot_request_from_message", 404)
            /\ UNCHANGED slot_requests
       ELSE IF messages[message_id].slot_request_id = 0
       THEN /\ Done(w, "handle_slot_request_from_message", 400)
            /\ UNCHANGED slot_requests
       ELSE IF messages[message_id].slot_request_id
                   \notin DOMAIN slot_requests
       THEN /\ Done(w, "handle_slot_request_from_message", 404)
            /\ UNCHANGED slot_requests
       ELSE LET request_id == messages[message_id].slot_request_id
                post_id == slot_requests[request_id].post_id
            IN IF ~PostExists(post_id)
               THEN /\ Done(w, "handle_slot_request_from_message", 404)
                    /\ UNCHANGED slot_requests
               ELSE IF NotAuthor(post_id, current_user_id)
               THEN /\ Done(w, "handle_slot_request_from_message", 403)
                    /\ UNCHANGED slot_requests
               ELSE IF status \notin {"accepted", "rejected"}
               THEN /\ Done(w, "handle_slot_request_from_message", 400)
                    /\ UNCHANGED slot_requests
               ELSE /\ slot_requests' =
                           WithStatus(slot_requests, request_id, status)
                    /\ inflight' = [inflight EXCEPT ![w] =
                           [Idle EXCEPT
                              !.pc = IF status = "accepted"
                                     THEN "count" ELSE "decline",
                              !.op = "handle_slot_request_from_message",
                              !.post_id = post_id,
                              !.request_id = request_id,
                              !.message_id = message_id,
                              !.status = status,
                              !.current_user_id = current_user_id]]

\* filled_slots = ...count(); if filled_slots >= post.slot_count: raise
count_filled_slots(w) ==
    /\ inflight[w].pc = "count"
    /\ UNCHANGED <<tables, resp, call>>
    /\ IF SlotsFull(post_slots, inflight[w].post_id)
       THEN Done(w, inflight[w].op, 400)
       ELSE inflight' = [inflight EXCEPT ![w].pc =
                IF inflight[w].op = "handle_slot_request_from_message"
                THEN "existing_slot" ELSE "insert"]

\* existing_slot = ...first(); if existing_slot: raise
check_existing_slot(w) ==
    /\ inflight[w].pc = "existing_slot"
    /\ UNCHANGED <<tables, resp, call>>
    /\ IF HasSlot(post_slots, inflight[w].post_id,
                  slot_requests[inflight[w].request_id].requester_user_id)
       THEN Done(w, inflight[w].op, 400)
       ELSE inflight' = [inflight EXCEPT ![w].pc = "insert"]

\* db.add(db_slot) (and the confirmation message of the message-scoped
\* endpoint); db.commit()
insert_slot(w) ==
    /\ inflight[w].pc = "insert"
    /\ NextSlotId(post_slots) <= MaxSlotId
    /\ post_slots' = post_slots \cup
           {PostSlotRow(post_slots, inflight[w].post_id,
                slot_requests[inflight[w].request_id].requester_user_id)}
    /\ IF inflight[w].op = "handle_slot_request_from_message"
       THEN /\ Len(messages) < MaxMessages
            /\ messages' = Append(messages,
                   MessageRow(messages[inflight[w].message_id]
                                  .conversation_id,
                              inflight[w].current_user_id, FALSE, 0))
            /\ conversations' = [conversations EXCEPT
                   ![messages[inflight[w].message_id].conversation_id]
                       .updated_at = utcnow]
       ELSE UNCHANGED <<messages, conversations>>
    /\ Done(w, inflight[w].op, 200)
    /\ UNCHANGED <<aside, users, skills, posts, slot_requests, resp>>

\* db.add(rejection_message); db.commit()
decline_reply(w) ==
    /\ inflight[w].pc = "decline"
    /\ Len(messages) < MaxMessages
    /\ messages' = Append(messages,
           MessageRow(messages[inflight[w].message_id].conversation_id,
                      inflight[w].current_user_id, FALSE, 0))
    /\ conversations' = [conversations EXCEPT
           ![messages[inflight[w].message_id].conversation_id].updated_at =
               utcnow]
    /\ Done(w, inflight[w].op, 200)
    /\ UNCHANGED <<aside, users, skills, posts, post_slots, slot_requests,
                   resp>>

\* create_conversation up to the lookup of an existing conversation
begin_create_conversation(w, sender_id, other_user_id) ==
    /\ inflight[w].pc = "idle"
    /\ UNCHANGED <<tables, resp, call>>
    /\ IF ~UserExists(sender_id) \/ ~UserExists(other_user_id)
       THEN Done(w, "create_conversation", 404)
       ELSE IF sender_id = other_user_id
       THEN Done(w, "create_conversation", 400)
       ELSE IF ConversationsBetween(conversations, sender_id,
                                    other_user_id) # {}
       THEN Done(w, "create_conversation", 400)
       ELSE inflight' = [inflight EXCEPT ![w] =
                [Idle EXCEPT !.pc = "insert_conversation",
                             !.op = "create_conversation",
                             !.current_user_id = sender_id,
                             !.other_user_id = other_user_id]]

\* db.add(db_conversation); db.flush(); db.add(db_message); db.commit()
insert_conversation(w) ==
    /\ inflight[w].pc = "insert_conversation"
    /\ Len(conversations) < MaxConversations
    /\ Len(messages) < MaxMessages
    /\ conversations' = Append(conversations,
           ConversationRow(inflight[w].current_user_id,
                           inflight[w].other_user_id))
    /\ messages' = Append(messages,
           MessageRow(Len(conversations) + 1, inflight[w].current_user_id,
                      TRUE, 0))
    /\ Done(w, "create_conversation", 201)
    /\ UNCHANGED <<aside, users, skills, posts, post_slots,
                   slot_requests, resp>>

\* the response of worker w is sent and its session closed
respond(w) ==
    /\ inflight[w].pc = "done"
    /\ inflight' = [inflight EXCEPT ![w] = Idle]
    /\ UNCHANGED <<tables, resp, call>>

\* no worker handles a request
Quiet == \A w \in Workers : inflight[w].pc = "idle"

\* the rows the racing requests work on are set up one request at a time,
\* while no worker handles a request
SetUpUser == Quiet /\ SignUp
SetUpPost == Quiet /\ CreatePost
SetUpSlotRequest == Quiet /\ RequestSlot

BeginUpdateSlotRequest ==
    /\ Ready
    /\ \E w \in Workers, p \in PostIds, r \in RequestIds,
          st \in StatusInputs, u \in UserIds :
           begin_update_slot_request(w, p, r, st, u)

BeginHandleSlotRequestFromMessage ==
    /\ Ready
    /\ \E w \in Workers, m \in MessageIds, st \in StatusInputs,
          u \in UserIds :
           begin_handle_slot_request_from_message(w, m, st, u)

CountFilledSlots == \E w \in Workers : count_filled_slots(w)
CheckExistingSlot == \E w \in Workers : check_existing_slot(w)
InsertSlot == \E w \in Workers : insert_slot(w)
DeclineReply == \E w \in Workers : decline_reply(w)
Respond == \E w \in Workers : respond(w)

\* the racing create_conversation calls are those of the first two users,
\* to each other (or to themselves)
RacingUserIds == 1..2

BeginCreateConversation ==
    /\ Ready
    /\ \E w \in Workers, s, o \in RacingUserIds :
           begin_create_conversation(w, s, o)

InsertConversation == \E w \in Workers : insert_conversation(w)

\* slot-request decisions of several workers at once, over posts and
\* requests set up one at a time
NextRaceSlots ==
    \/ SetUpUser
    \/ SetUpPost
    \/ SetUpSlotRequest
    \/ close_session
    \/ BeginUpdateSlotRequest
    \/ BeginHandleSlotRequestFromMessage
    \/ CountFilledSlots
    \/ CheckExistingSlot
    \/ InsertSlot
    \/ DeclineReply
    \/ Respond

SpecRaceSlots == Init /\ [][NextRaceSlots]_vars

\* create_conversation calls of several workers at once
NextRaceConversations ==
    \/ SetUpUser
    \/ close_session
    \/ BeginCreateConversation
    \/ InsertConversation
    \/ Respond

SpecRaceConversations == Init /\ [][NextRaceConversations]_vars

\* the user service alone: sign-ups with any email, username and skill names
EmailInputs == {Emails[i] : i \in 1..MaxUsers}
UsernameInputs == {Usernames[i] : i \in 1..MaxUsers}

CreateUser ==
    /\ Ready
    /\ \E e \in EmailInputs, n \in UsernameInputs, sk \in SkillNameInputs :
           create_user(UserCreate(e, n, sk))

NextUsers ==
    \/ CreateUser
    \/ close_session

SpecUsers == Init /\ [][NextUsers]_vars

\* ---------------------------------------------------------------- claims
DecisionOps == {"update_slot_request", "handle_slot_request_from_message"}

SlotCountOf(p) == Cardinality({s \in post_slots : s.post_id = p})

\* C1: with one request handled at a time, no post ever has more PostSlot
\* rows than its slot_count, whatever sequence of request_slot, decisions
\* through either endpoint and remove_slot ran
C1_SlotsWithinSlotCount ==
    \A p \in DOMAIN posts : SlotCountOf(p) <= posts[p].slot_count

\* a decision endpoint has just refused an acceptance on a post whose seats
\* are all taken
C1_Witness ==
    /\ resp.op \in DecisionOps
    /\ resp.detail = "All slots are already filled"
    /\ \E p \in DOMAIN posts : SlotCountOf(p) = posts[p].slot_count

\* C2: with one request handled at a time, no post has two PostSlot rows of
\* the same user, also when the same SlotRequest is decided repeatedly
C2_OneSlotPerUser ==
    \A s, t \in post_slots :
        (s.post_id = t.post_id /\ s.user_id = t.user_id) => s.id = t.id

PairHasConversation(a, b) ==
    \E c \in DOMAIN conversations :
        {conversations[c].user1_id, conversations[c].user2_id} = {a, b}

\* C3: with one request handled at a time there is at most one Conversation
\* per unordered pair of users, and a create_conversation for a pair that
\* has one, in either argument order, answers 400 and writes nothing
C3_OneConversationPerPair ==
    /\ [](\A c, d \in DOMAIN conversations :
            {conversations[c].user1_id, conversations[c].user2_id}
              = {conversations[d].user1_id, conversations[d].user2_id}
            => c = d)
    /\ [][\/ (resp'.status = 400 /\ UNCHANGED tables)
          \/ ~Ready
          \/ \A s, o \in UserIds :
                PairHasConversation(s, o) => ~create_conversation(s, o)]_vars

\* a create_conversation was refused because the pair has a conversation
C3_Witness ==
    /\ resp.op = "create_conversation"
    /\ resp.detail = "Conversation already exists"
    /\ Len(conversations) >= 1

\* the messages of conversation c, oldest first
ThreadOf(c) ==
    SelectSeq(messages, LAMBDA m : m.conversation_id = c)

\* C4: in a conversation opened by an initial greeting of user A, as long as
\* the other participant has sent nothing, there is no second message of A
C4_WaitForReply ==
    \A c \in DOMAIN conversations :
        LET thread == ThreadOf(c)
        IN (/\ Len(thread) >= 1
            /\ thread[1].is_initial_greeting
            /\ \A i \in DOMAIN thread :
                   thread[i].sender_id = thread[1].sender_id)
           => Len(thread) = 1

\* C7: every Conversation row has user1_id < user2_id, whether
\* create_conversation or request_slot created it
C7_SmallerIdFirst ==
    \A c \in DOMAIN conversations :
        conversations[c].user1_id < conversations[c].user2_id

\* a conversation opened by a greeting of its larger id and one opened by a
\* slot request of its larger id
C7_Witness ==
    /\ \E c \in DOMAIN conversations :
          /\ ThreadOf(c)[1].is_initial_greeting
          /\ ThreadOf(c)[1].sender_id = conversations[c].user2_id
    /\ \E c \in DOMAIN conversations :
          /\ ThreadOf(c)[1].slot_request_id # 0
          /\ ThreadOf(c)[1].sender_id = conversations[c].user2_id

\* C8: only the author of a request's post decides it: a decision call of
\* any other user answers 403 and writes nothing, and every step that
\* changes a SlotRequest's status or adds a PostSlot is a decision call of
\* the author of that request's post
C8_OnlyAuthorDecides ==
    [][/\ \/ (resp'.status = 403 /\ UNCHANGED tables)
          \/ ~Ready
          \/ resp'.op \notin DecisionOps
          \/ /\ \A p \in DOMAIN posts, u \in UserIds :
                   posts[p].author_id # u
                   => \A r \in RequestIds, st \in StatusInputs :
                          ~update_slot_request(p, r, st, u)
             /\ \A m \in DOMAIN messages, u \in UserIds :
                   (/\ messages[m].slot_request_id \in DOMAIN slot_requests
                    /\ posts[slot_requests[messages[m].slot_request_id]
                                 .post_id].author_id # u)
                   => \A st \in StatusInputs :
                          ~handle_slot_request_from_message(m, st, u)
       /\ ((\/ \E r \in DOMAIN slot_requests :
                  slot_requests'[r].status # slot_requests[r].status
            \/ post_slots' \ post_slots # {})
           => \E r \in DOMAIN slot_requests, st \in StatusInputs :
                LET p == slot_requests[r].post_id
                    a == posts[p].author_id
                IN \/ update_slot_request(p, r, st, a)
                   \/ \E m \in DOMAIN messages :
                        /\ messages[m].slot_request_id = r
                        /\ handle_slot_request_from_message(m, st, a))
      ]_vars

\* a user who is not the author tried to decide a pending request through
\* its message and was refused
C8_Witness ==
    /\ resp.op = "handle_slot_request_from_message"
    /\ resp.status = 403
    /\ \E r \in DOMAIN slot_requests : slot_requests[r].status = "pending"

\* C19: when the author of a post that holds slot_count PostSlot rows or more
\* accepts one of its slot requests through either decision endpoint, the
\* answer is 400, no PostSlot is added and the request's stored status is
\* "accepted"
C19_AcceptOnFullPost ==
    [][\/ ~Ready
       \/ resp'.op \notin DecisionOps
       \/ \A r \in DOMAIN slot_requests :
             LET p == slot_requests[r].post_id
                 a == posts[p].author_id
                 refused == /\ resp'.status = 400
                            /\ post_slots' = post_slots
                            /\ slot_requests'[r].status = "accepted"
             IN FilledSlots(post_slots, p) >= posts[p].slot_count
                => /\ update_slot_request(p, r, "accepted", a) => refused
                   /\ \A m \in DOMAIN messages :
                         (/\ messages[m].slot_request_id = r
                          /\ handle_slot_request_from_message(m, "accepted",
                                                              a))
                         => refused
      ]_vars

\* the author accepted, through its message, the request of a user who holds
\* no slot of the full post: refused, and the request reads "accepted"
C19_Witness ==
    /\ resp.op = "handle_slot_request_from_message"
    /\ resp.status = 400
    /\ resp.detail = "All slots are already filled"
    /\ \E r \in DOMAIN slot_requests :
          LET p == slot_requests[r].post_id
          IN /\ slot_requests[r].status = "accepted"
             /\ ~HasSlot(post_slots, p, slot_requests[r].requester_user_id)
             /\ FilledSlots(post_slots, p) = posts[p].slot_count

\* C20: a request answered 400, 401, 403 or 404 leaves every table as it
\* was, but for the acceptance of a slot request on a post whose slots are
\* all filled, which changes the status of that request and nothing else
C20_FailuresWriteNothing ==
    [][resp'.status \in {400, 401, 403, 404}
       => \/ UNCHANGED tables
          \/ /\ resp'.op \in DecisionOps
             /\ UNCHANGED <<users, skills, posts, post_slots, conversations,
                            messages, projects, help_requests, matches>>
             /\ \E r \in DOMAIN slot_requests :
                   LET p == slot_requests[r].post_id
                   IN /\ FilledSlots(post_slots, p) >= posts[p].slot_count
                      /\ slot_requests' =
                             [slot_requests EXCEPT ![r].status = "accepted"]
      ]_vars

\* C21: no message is newer than the updated_at of its conversation, and
\* get_conversations lists first the conversation that holds the newest
\* message of the user's conversations
C21_UpdatedAtFollowsMessages ==
    /\ \A m \in DOMAIN messages :
          messages[m].created_at
              <= conversations[messages[m].conversation_id].updated_at
    /\ \A u \in DOMAIN users :
          LET listed == get_conversations(u)
          IN \A m \in DOMAIN messages :
                (\E i \in DOMAIN listed :
                     listed[i] = messages[m].conversation_id)
                => \E n \in DOMAIN messages :
                       /\ messages[n].conversation_id = listed[1]
                       /\ messages[n].created_at >= messages[m].created_at

\* C24: a message that carries is_initial_greeting is the first message of
\* its conversation
C24_GreetingIsFirstMessage ==
    \A m \in DOMAIN messages :
        messages[m].is_initial_greeting
        => MessagesOf(messages, messages[m].conversation_id)[1] = m

\* the SlotRequests of a user on a post that are pending or accepted
ActiveRequests(requests, p, u) ==
    {r \in DOMAIN requests :
        /\ requests[r].post_id = p
        /\ requests[r].requester_user_id = u
        /\ requests[r].status \in {"pending", "accepted"}}

\* C25: after every step a user has at most one pending or accepted
\* SlotRequest per post, and a request_slot answered 400 writes nothing
C25_OneActiveRequestPerUser ==
    [][/\ \A p \in DOMAIN posts', u \in DOMAIN users' :
             Cardinality(ActiveRequests(slot_requests', p, u)) <= 1
       /\ (resp'.op = "request_slot" /\ resp'.status = 400)
          => UNCHANGED tables
      ]_vars

\* C27: no step changes the status of a SlotRequest that is accepted or
\* rejected, and no step adds a PostSlot for its user on its post unless the
\* step accepts another, pending request of that user on that post
C27_DecisionIsFinal ==
    [][\A r \in DOMAIN slot_requests :
          slot_requests[r].status \in {"accepted", "rejected"}
          => /\ slot_requests'[r].status = slot_requests[r].status
             /\ (\E s \in post_slots' \ post_slots :
                     /\ s.post_id = slot_requests[r].post_id
                     /\ s.user_id = slot_requests[r].requester_user_id)
                => \E q \in DOMAIN slot_requests :
                       /\ q # r
                       /\ slot_requests[q].post_id = slot_requests[r].post_id
                       /\ slot_requests[q].requester_user_id
                              = slot_requests[r].requester_user_id
                       /\ slot_requests[q].status = "pending"
                       /\ slot_requests'[q].status = "accepted"
      ]_vars

\* C28: every PostSlot belongs to a user who has an accepted SlotRequest on
\* the slot's post
C28_SlotsAreBackedByAcceptedRequests ==
    \A s \in post_slots :
        \E r \in DOMAIN slot_requests :
            /\ slot_requests[r].post_id = s.post_id
            /\ slot_requests[r].requester_user_id = s.user_id
            /\ slot_requests[r].status = "accepted"

\* the messages that reference a SlotRequest
CarriersOf(msgs, r) == {m \in DOMAIN msgs : msgs[m].slot_request_id = r}

\* C26: after every step each SlotRequest is referenced by exactly one
\* message, sent by the requester in a conversation of the requester and
\* the post's author; a successful request_slot adds one SlotRequest and one
\* message, and a conversation only when the two had none
C26_RequestCarriedByOneMessage ==
    [][/\ \A r \in DOMAIN slot_requests' :
             /\ Cardinality(CarriersOf(messages', r)) = 1
             /\ \A m \in CarriersOf(messages', r) :
                   LET c == conversations'[messages'[m].conversation_id]
                       requester == slot_requests'[r].requester_user_id
                   IN /\ messages'[m].sender_id = requester
                      /\ {c.user1_id, c.user2_id} =
                             {requester,
                              posts'[slot_requests'[r].post_id].author_id}
       /\ (resp'.op = "request_slot" /\ resp'.status = 200)
          => /\ Len(slot_requests') = Len(slot_requests) + 1
             /\ slot_requests'[Len(slot_requests')].status = "pending"
             /\ Len(messages') = Len(messages) + 1
             /\ messages'[Len(messages')].slot_request_id
                    = Len(slot_requests')
             /\ Len(conversations') = Len(conversations) +
                    (LET r == slot_requests'[Len(slot_requests')]
                     IN IF ConversationsBetween(conversations,
                               r.requester_user_id,
                               posts[r.post_id].author_id) = {}
                        THEN 1 ELSE 0)
      ]_vars

\* a request was made by a user who already had a conversation with the
\* author: its message lies behind the greeting of that conversation
C26_Witness ==
    /\ resp.op = "request_slot"
    /\ resp.status = 200
    /\ \E m \in DOMAIN messages :
          /\ messages[m].slot_request_id # 0
          /\ MessagesOf(messages, messages[m].conversation_id)[1] # m

\* C29: the sender of every message is user1_id or user2_id of the
\* message's conversation
C29_SenderIsParticipant ==
    \A m \in DOMAIN messages :
        messages[m].sender_id \in
            {conversations[messages[m].conversation_id].user1_id,
             conversations[messages[m].conversation_id].user2_id}

\* one conversation holds a greeting, the message of a slot request and the
\* author's answer to it, sent through the message-scoped decision
C29_Witness ==
    /\ resp.op = "handle_slot_request_from_message"
    /\ resp.status = 200
    /\ \E c \in DOMAIN conversations :
          LET thread == MessagesOf(messages, c)
          IN /\ Len(thread) = 3
             /\ messages[thread[1]].is_initial_greeting
             /\ messages[thread[2]].slot_request_id # 0
             /\ messages[thread[3]].sender_id
                    # messages[thread[2]].sender_id

\* C9: no PostSlot and no SlotRequest of a post belongs to the post's author
C9_AuthorHoldsNoSeat ==
    /\ \A s \in post_slots : posts[s.post_id].author_id # s.user_id
    /\ \A r \in DOMAIN slot_requests :
          posts[slot_requests[r].post_id].author_id
              # slot_requests[r].requester_user_id

\* the author asked for a slot on the own post, which already has a holder,
\* and was refused
C9_Witness ==
    /\ resp.op = "request_slot"
    /\ resp.detail = "You cannot request a slot in your own post"
    /\ post_slots # {}

\* C10: a create_user whose email or username an existing user has answers
\* 400 and adds no user, skill or association, so no two users share an
\* email or a username
C10_UniqueEmailAndUsername ==
    /\ [](\A u, v \in DOMAIN users :
            (users[u].email = users[v].email
             \/ users[u].username = users[v].username) => u = v)
    /\ [][\/ (resp'.status = 400 /\ UNCHANGED tables)
          \/ ~Ready
          \/ \A e \in EmailInputs, n \in UsernameInputs :
                (\E u \in DOMAIN users :
                    users[u].email = e \/ users[u].username = n)
                => \A sk \in SkillNameInputs :
                             ~create_user(UserCreate(e, n, sk))]_vars

\* a sign-up with a fresh email and a taken username was refused
C10_Witness ==
    /\ resp.op = "create_user"
    /\ resp.detail = "Username already taken"
    /\ Len(users) >= 2

\* workers that passed the capacity check of post p and have not inserted
PassedCapacityCheck(p) ==
    {w \in Workers : inflight[w].post_id = p
                     /\ inflight[w].pc \in {"existing_slot", "insert"}}

\* C5: interleaved acceptances can fill a post beyond slot_count (the
\* witness), by at most one row per further worker: the rows of a post and
\* the workers past its capacity check never exceed slot_count + NWorkers - 1
C5_OverfillBoundedByWorkers ==
    \A p \in DOMAIN posts :
        SlotCountOf(p) + Cardinality(PassedCapacityCheck(p))
            <= posts[p].slot_count + NWorkers - 1

\* two acceptances for different requesters both answered 200 and the post
\* holds more rows than slot_count
C5_Witness ==
    /\ \A w \in Workers :
          inflight[w].pc = "done" /\ inflight[w].result = 200
          /\ inflight[w].op \in DecisionOps
    /\ \E w \in Workers :
          inflight[w].op = "handle_slot_request_from_message"
    /\ \E p \in DOMAIN posts :
          /\ SlotCountOf(p) > posts[p].slot_count
          /\ \E s, t \in post_slots :
                s.post_id = p /\ t.post_id = p /\ s.user_id # t.user_id

ConversationsOfPair(a, b) ==
    {c \in DOMAIN conversations :
        {conversations[c].user1_id, conversations[c].user2_id} = {a, b}}

\* workers that found no conversation of the pair and have not inserted
PassedExistsCheck(a, b) ==
    {w \in Workers :
        /\ inflight[w].pc = "insert_conversation"
        /\ {inflight[w].current_user_id, inflight[w].other_user_id} = {a, b}}

\* C6: interleaved create_conversation calls for one pair can both succeed
\* and leave two Conversation rows of the pair (the witness), one row per
\* worker at most: the rows of a pair and the workers past its lookup never
\* exceed NWorkers
C6_DuplicatesBoundedByWorkers ==
    \A a, b \in UserIds :
        Cardinality(ConversationsOfPair(a, b))
            + Cardinality(PassedExistsCheck(a, b)) <= NWorkers

\* both workers answered 201 to a create_conversation, sent in opposite
\* orders, and the pair has two rows
C6_Witness ==
    /\ \A w \in Workers :
          /\ inflight[w].pc = "done"
          /\ inflight[w].result = 201
          /\ inflight[w].op = "create_conversation"
    /\ \E c, d \in DOMAIN conversations :
          /\ c # d
          /\ conversations[c].user1_id = conversations[d].user1_id
          /\ conversations[c].user2_id = conversations[d].user2_id
          /\ ThreadOf(c)[1].sender_id # ThreadOf(d)[1].sender_id

\* ------------------------------------------------------ the skill catalogue
\* skill names a request sends: spellings of the seeded "SQL", a LIKE pattern
\* that matches it, and a name of one letter outside ASCII in both cases
\* (U+00E9 and U+00C9, written here by their names)
SkillNames == {<<"s", "q", "l">>, <<"s", "_", "l">>,
               <<"e-acute">>, <<"E-acute">>}
SkillLists ==
    {<<>>} \cup {<<n>> : n \in SkillNames}
           \cup {<<<<"e-acute">>, <<"E-acute">>>>,
                 <<<<"s", "q", "l">>, <<"s", "_", "l">>>>}

SignUpWithSkills ==
    /\ Ready
    /\ \E sk \in SkillLists :
           create_user(UserCreate(Emails[Len(users) + 1],
                                  Usernames[Len(users) + 1], sk))

UpdateUserSkills ==
    /\ Ready
    /\ \E u \in UserIds, sk \in {None} \cup {Some(l) : l \in SkillLists} :
           update_user(u, [UserUpdate EXCEPT !.skill_names = sk])

CreateProject ==
    /\ Ready
    /\ \E u \in UserIds, sk \in SkillLists : create_project(u, sk)

Restart == Ready /\ startup_event

NextSkills ==
    \/ SignUpWithSkills
    \/ UpdateUserSkills
    \/ CreateProject
    \/ Restart
    \/ close_session

SpecSkills == Init /\ [][NextSkills]_vars

EqualIgnoringCase(a, b) ==
    /\ Len(a) = Len(b)
    /\ \A i \in DOMAIN a : Lower(a[i]) = Lower(b[i])

CreatePostOfAnyType ==
    /\ Ready
    /\ \E u \in UserIds, n \in SlotCounts, t \in {"regular", "help"} :
           create_post(u, n, t)

RequestHelp ==
    /\ Ready
    /\ \E p \in PostIds, u \in UserIds : request_help(p, u)

NextHelp ==
    \/ SignUp
    \/ CreatePostOfAnyType
    \/ RequestHelp
    \/ close_session

SpecHelp == Init /\ [][NextHelp]_vars

\* C12: a post and a user have at most one HelpRequest, no helper is the
\* author of the post, and a duplicate or own-post request_help answers 400
\* and adds no row
C12_OneHelpRequestPerUser ==
    /\ [](\A h \in DOMAIN help_requests :
            /\ posts[help_requests[h].post_id].author_id
                   # help_requests[h].helper_user_id
            /\ \A g \in DOMAIN help_requests :
                   help_requests[g] = help_requests[h] => g = h)
    /\ [][\/ (resp'.status = 400 /\ UNCHANGED tables)
          \/ ~Ready
          \/ \A p \in DOMAIN posts, u \in UserIds :
                (\/ posts[p].author_id = u
                 \/ \E h \in DOMAIN help_requests :
                       help_requests[h] = [post_id |-> p,
                                           helper_user_id |-> u])
                => ~request_help(p, u)]_vars

\* a user who has a HelpRequest on the post asked again and was refused
C12_Witness ==
    /\ resp.op = "request_help"
    /\ resp.status = 400
    /\ resp.detail = "You have already requested to help on this post"
    /\ help_requests # <<>>

\* -------------------------------------------------------------- connections
\* the skills a profile names, among the seeded ones
ProfileSkills == {<<>>, <<<<"s", "q", "l">>>>,
                  <<<<"s", "q", "l">>, <<"g", "i", "t">>>>}

SignUpWithProfile ==
    /\ Ready
    /\ \E sk \in ProfileSkills :
           create_user(UserCreate(Emails[Len(users) + 1],
                                  Usernames[Len(users) + 1], sk))

UpdateProfile ==
    /\ Ready
    /\ \E u \in UserIds, sk \in ProfileSkills :
           update_user(u, [UserUpdate EXCEPT !.skill_names = Some(sk)])

CreateConnection ==
    /\ Ready
    /\ \E r \in UserIds, c \in UserIds : create_connection(r, c, None)

NextConnections ==
    \/ SignUpWithProfile
    \/ UpdateProfile
    \/ CreateConnection
    \/ close_session

\* no function has been called on its own yet
NoCall == call.fn = "none"

SpecConnections == Init /\ [][NextConnections]_vars

\* C13: a Match row is created by create_connection with status "pending"
\* and the score computed then, and no step changes or removes it afterwards
C13_MatchesAreImmutable ==
    /\ [](\A m \in DOMAIN matches : matches[m].status = "pending")
    /\ [][/\ \A m \in DOMAIN matches :
                m \in DOMAIN matches' /\ matches'[m] = matches[m]
          /\ matches' # matches =>
                /\ resp'.op = "create_connection"
                /\ Len(matches') = Len(matches) + 1
                /\ LET new == matches'[Len(matches')]
                   IN new.match_score =
                          MatchScore(users[new.requester_id],
                                     users[new.matched_user_id], None)]_vars

\* a Match keeps a positive score that the profiles of its two users, changed
\* since, would no longer give
C13_Witness ==
    \E m \in DOMAIN matches :
        /\ matches[m].match_score > 0
        /\ matches[m].match_score
               # MatchScore(users[matches[m].requester_id],
                            users[matches[m].matched_user_id], None)

\* ----------------------------------------------------------- matching calls
\* User objects handed to the matching functions: skills are ids of seeded
\* rows (6 is "SQL", 10 is "Git")
SkillSets == {{}, {6}, {6, 10}}
UserObjects(ids) ==
    [id : ids, is_active : BOOLEAN, skills : SkillSets,
     timezone : {None}, availability : {None}]

\* candidate lists: users of distinct ids in any order
Pools ==
    {q \in UNION {[1..n -> UserObjects(1..(MaxPool + 1))] :
                      n \in 0..MaxPool} :
        \A i, j \in DOMAIN q : q[i].id = q[j].id => i = j}

FindBestMatches ==
    /\ NoCall
    /\ \E requester \in {u \in UserObjects({1}) : u.is_active},
          all_users \in Pools,
          required_skills \in {None, Some(<<<<"g", "i", "t">>>>)},
          top_k \in 1..MaxTopK :
           Return("find_best_matches",
                  [requester |-> requester, all_users |-> all_users,
                   required_skills |-> required_skills, top_k |-> top_k],
                  find_best_matches(requester, all_users, required_skills,
                                    top_k))

SpecFindBestMatches == Init /\ [][FindBestMatches]_vars

\* the place of the user with this id in a list of users
PlaceOf(all_users, id) == CHOOSE i \in DOMAIN all_users : all_users[i].id = id

\* C14: the list find_best_matches returns holds neither the requester nor an
\* inactive user, has at most top_k entries, is sorted by non-increasing
\* score with equal scores in input order, and leaves out no eligible
\* candidate that scores higher than its last entry
C14_BestMatches ==
    call.fn = "find_best_matches" =>
        LET a == call.args
            r == call.result
            eligible == {i \in DOMAIN a.all_users :
                            /\ a.all_users[i].id # a.requester.id
                            /\ a.all_users[i].is_active}
            returned == {PlaceOf(a.all_users, r[k].candidate.id) :
                            k \in DOMAIN r}
        IN /\ \A k \in DOMAIN r :
                 /\ r[k].candidate.id # a.requester.id
                 /\ r[k].candidate.is_active
                 /\ r[k].candidate \in {a.all_users[i] : i \in eligible}
                 /\ r[k].score = MatchScore(a.requester, r[k].candidate,
                                            a.required_skills)
           /\ Len(r) <= a.top_k
           /\ Cardinality(returned) = Len(r)
           /\ \A k \in 1..(Len(r) - 1) :
                 \/ r[k].score > r[k + 1].score
                 \/ /\ r[k].score = r[k + 1].score
                    /\ PlaceOf(a.all_users, r[k].candidate.id)
                           < PlaceOf(a.all_users, r[k + 1].candidate.id)
           /\ \A i \in eligible \ returned :
                 /\ Len(r) = a.top_k
                 /\ MatchScore(a.requester, a.all_users[i],
                               a.required_skills) <= r[Len(r)].score

\* two candidates of equal score were returned, and an eligible one was cut
C14_Witness ==
    /\ call.fn = "find_best_matches"
    /\ Len(call.result) = 2
    /\ call.result[1].score = call.result[2].score
    /\ call.result[1].score > 0
    /\ call.args.top_k = 2
    /\ \E i \in DOMAIN call.args.all_users :
          /\ call.args.all_users[i].is_active
          /\ call.args.all_users[i].id # call.args.requester.id
          /\ \A k \in DOMAIN call.result :
                call.result[k].candidate # call.args.all_users[i]

\* availability and timezone labels of a profile: absent, empty, or a text
AvailabilityLabels ==
    {None, Some(<<>>), Some(<<"a", "n", "y">>), Some(<<"A", "n", "Y">>),
     Some(<<"e", "v", "e">>), Some(<<"E", "v", "e">>)}
TimezoneLabels == {None, Some(<<>>), Some(<<"U", "T", "C">>),
                   Some(<<"C", "E", "T">>)}

ComputeAvailabilityScore ==
    /\ NoCall
    /\ \E requester \in [availability : AvailabilityLabels,
                          timezone : TimezoneLabels],
          candidate \in [availability : AvailabilityLabels,
                          timezone : TimezoneLabels] :
           Return("compute_complementary_match",
                  [requester |-> requester, candidate |-> candidate],
                  [availability_score |->
                       AvailabilityScore(requester, candidate)])

SpecAvailability == Init /\ [][ComputeAvailabilityScore]_vars

\* a label is given and reads "any" in some casing
IsAny(label) == label # None /\ EqualIgnoringCase(label[1], <<"a", "n", "y">>)

\* C15: availability_score is 0.2 if either availability is "any" ignoring
\* case, else 0.15 if both timezones are non-empty and equal, else 0.1 if
\* both availability labels are equal ignoring case, else 0.0 (the scores in
\* ten-thousandths)
C15_AvailabilityScore ==
    call.fn = "compute_complementary_match" =>
        LET r == call.args.requester
            c == call.args.candidate
        IN call.result.availability_score =
             IF IsAny(r.availability) \/ IsAny(c.availability) THEN 2000
             ELSE IF /\ Truthy(r.timezone) /\ Truthy(c.timezone)
                     /\ r.timezone = c.timezone
             THEN 1500
             ELSE IF /\ r.availability # None /\ c.availability # None
                     /\ EqualIgnoringCase(r.availability[1],
                                          c.availability[1])
             THEN 1000
             ELSE 0

\* ------------------------------------------------------------ interest match
\* interests a profile update sends
InterestLists == {<<>>, <<<<"#", "a", "i">>>>, <<<<"A", "I">>>>,
                  <<<<"#", "d", "b">>>>,
                  <<<<"#", "a", "i">>, <<"#", "d", "b">>>>}

UpdateInterests ==
    /\ Ready
    /\ \E u \in UserIds, l \in InterestLists :
           update_user(u, [UserUpdate EXCEPT !.interests = Some(l)])

GetAiMatch == Ready /\ \E u \in UserIds : get_ai_match(u)

NextAiMatch ==
    \/ SignUp
    \/ UpdateInterests
    \/ GetAiMatch
    \/ close_session

SpecAiMatch == Init /\ [][NextAiMatch]_vars

\* C16: when get_ai_match succeeds, the interest similarity of the returned
\* candidate with the subject is greater than 0
C16_AiMatchOverlaps ==
    (resp.op = "get_ai_match" /\ resp.status = 200)
        => resp.body.interest_match > 0

\* ----------------------------------------------------------------- migration
\* the column lists a table can start with: "id" and any of the listed ones
RECURSIVE ColumnLists(_)
ColumnLists(names) ==
    IF names = <<>> THEN {<<"id">>}
    ELSE LET rest == ColumnLists(Tail(names))
         IN rest \cup {Append(c, Head(names)) : c \in rest}

Schemas ==
    [users : {None} \cup {Some(c) : c \in ColumnLists(SubSeq(UsersBlocks,
                                                             1, 7))},
     posts : {None} \cup {Some(c) : c \in ColumnLists(<<"post_type">>)},
     messages :
         {None} \cup {Some(c) : c \in ColumnLists(<<"slot_request_id">>)}]

\* migrate_db runs, and runs again on what it left
MigrateTwice ==
    /\ NoCall
    /\ \E schema \in Schemas :
           Return("migrate_db", schema,
                  [first |-> migrate_db(schema),
                   second |-> migrate_db(migrate_db(schema))])

SpecMigrate == Init /\ [][MigrateTwice]_vars

\* the columns of a table of a schema, none for a table that does not exist
ColumnsOf(cols) == IF cols = None THEN {} ELSE SeqRange(cols[1])

\* C17: the second run of migrate_db leaves the schema of the first run, in
\* which every listed column is there once and no column is lost; without a
\* users table the run changes nothing
C17_MigrateIdempotent ==
    call.fn = "migrate_db" =>
        LET first == call.result.first
        IN /\ call.result.second = first
           /\ call.args.users = None => first = call.args
           /\ \A t \in {"users", "posts", "messages"} :
                 /\ first[t] = None <=> call.args[t] = None
                 /\ ColumnsOf(call.args[t]) \subseteq ColumnsOf(first[t])
                 /\ first[t] # None => NoRepeat(first[t][1])
           /\ call.args.users # None =>
                 /\ SeqRange(UsersBlocks) \subseteq ColumnsOf(first.users)
                 /\ first.posts # None =>
                        "post_type" \in ColumnsOf(first.posts)
                 /\ first.messages # None =>
                        "slot_request_id" \in ColumnsOf(first.messages)

\* the users table lacked linkedin_url: both of its blocks ran their ALTER,
\* the second one on a table that had the column by then
C17_Witness ==
    /\ call.fn = "migrate_db"
    /\ call.args.users # None
    /\ "linkedin_url" \notin ColumnsOf(call.args.users)
    /\ "linkedin_url" \in ColumnsOf(call.result.second.users)
    /\ call.args.posts # None

\* ------------------------------------------------------- JSON profile fields
\* texts an interests or looking_for column can hold: NULL, the empty text,
\* texts that are not JSON, JSON that is no list, and dumped lists
StoredTexts ==
    {None, Some(<<>>), Some(<<Tok("[", <<>>)>>),
     Some(<<Tok("word", <<"a", "i">>)>>),
     Some(<<Tok("{", <<>>), Tok("}", <<>>)>>),
     Some(<<Tok("number", <<"7">>)>>),
     Some(<<Tok("string", <<"a", "i">>)>>),
     Some(<<Tok("string", <<" ">>)>>)}
    \cup {Some(JsonDumps(l)) : l \in InterestLists}

\* create_user answers for the row it has just written: neither column set
ReturnCreatedUser ==
    /\ NoCall
    /\ LET db_user == [interests |-> None, looking_for |-> None]
       IN Return("create_user", db_user, UserResponse(db_user))

\* get_user answers for a row it finds
ReturnUser ==
    /\ NoCall
    /\ \E user \in [interests : StoredTexts, looking_for : StoredTexts] :
           Return("get_user", user, UserResponse(user))

NextUserResponse == ReturnCreatedUser \/ ReturnUser

SpecUserResponse == Init /\ [][NextUserResponse]_vars

\* the stored text is JSON
IsJson(stored) ==
    stored # None /\ stored[1] # <<>> /\ JsonLoads(stored[1]).ok

IsJsonList(stored) == IsJson(stored) /\ JsonLoads(stored[1]).type = "list"

\* C18: the user record of create_user and of get_user carries null for a
\* column that is NULL, empty or no JSON list, and the stored list otherwise
C18_UserRecordFields ==
    call.fn \in {"create_user", "get_user"} =>
        \A f \in {"interests", "looking_for"} :
            call.result[f] = IF IsJsonList(call.args[f])
                             THEN Some(JsonLoads(call.args[f][1]).items)
                             ELSE None

\* -------------------------------------------------------------- the inbox
GetMessages ==
    /\ Ready
    /\ \E c \in ConversationIds, u \in UserIds : get_messages(c, u)

NextInbox ==
    \/ SignUp
    \/ CreateConversation
    \/ SendMessage
    \/ GetMessages
    \/ close_session

SpecInbox == Init /\ [][NextInbox]_vars

\* C22: a successful get_messages leaves as read every message of the
\* conversation that the viewer did not send and changes no other message
\* and no other row; a viewer outside the conversation gets 403 and nothing
\* is written
C22_ViewerReadsOthersMessages ==
    [][\/ ~Ready
       \/ resp'.op # "get_messages"
       \/ \A c \in ConversationIds, u \in UserIds :
             get_messages(c, u)
             => /\ resp'.status = 200
                   => /\ DOMAIN messages' = DOMAIN messages
                      /\ \A m \in DOMAIN messages :
                            IF /\ messages[m].conversation_id = c
                               /\ messages[m].sender_id # u
                            THEN messages'[m] =
                                     [messages[m] EXCEPT !.read = TRUE]
                            ELSE messages'[m] = messages[m]
                      /\ UNCHANGED <<users, skills, posts, post_slots,
                                     slot_requests, conversations, projects,
                                     help_requests, matches>>
                /\ (/\ c \in DOMAIN conversations
                    /\ u \notin {conversations[c].user1_id,
                                  conversations[c].user2_id})
                   => resp'.status = 403 /\ UNCHANGED tables
      ]_vars

\* a participant has read the conversation: the other's message is read and
\* the viewer's own is not; a second conversation keeps an unread message
C22_Witness ==
    /\ resp.op = "get_messages"
    /\ resp.status = 200
    /\ \E m, n, k \in DOMAIN messages :
          /\ messages[m].conversation_id = messages[n].conversation_id
          /\ messages[m].read /\ ~messages[n].read
          /\ messages[k].conversation_id # messages[m].conversation_id
          /\ ~messages[k].read

\* ---------------------------------------------------------- profile updates
\* UserUpdate bodies: the two tag lists, the URL and the skill names, each
\* absent or present
UpdateBodies ==
    {[UserUpdate EXCEPT !.interests = tags[1], !.looking_for = tags[2],
                        !.linkedin_url = url, !.skill_names = names] :
        tags \in {<<None, None>>,
                  <<Some(<<<<"#", "a", "i">>>>), Some(<<>>)>>},
        url \in {None, Some(<<"i", "n">>)},
        names \in {None, Some(<<>>),
                   Some(<<<<"S", "Q", "L">>, <<"g", "i", "t">>>>)}}

UpdateUser ==
    /\ Ready
    /\ \E u \in UserIds, body \in UpdateBodies : update_user(u, body)

NextProfile ==
    \/ SignUp
    \/ UpdateUser
    \/ close_session

SpecProfile == Init /\ [][NextProfile]_vars

\* the ids of the skills rows that the names of a request resolve to
ResolvedFrom(names, table) ==
    {SetMin({i \in DOMAIN table : ILike(table[i].name, names[n])}) :
        n \in DOMAIN names}

\* C23: a successful update_user leaves in each column the value the request
\* gives, or the stored one when the request gives none; the user's skills
\* are the ones the given names resolve to, or the stored ones when no
\* names are given; the rows of the other users stay
C23_UpdateWritesPresentFields ==
    [][\/ ~Ready
       \/ resp'.op # "update_user"
       \/ resp'.status # 200
       \/ \A u \in DOMAIN users, body \in UpdateBodies :
             update_user(u, body)
             => /\ DOMAIN users' = DOMAIN users
                /\ \A v \in DOMAIN users : v # u => users'[v] = users[v]
                /\ users'[u].email = users[u].email
                /\ users'[u].username = users[u].username
                /\ \A f \in {"timezone", "availability", "linkedin_url"} :
                      users'[u][f] = IF body[f] = None THEN users[u][f]
                                     ELSE body[f]
                /\ \A f \in {"interests", "looking_for"} :
                      IF body[f] = None THEN users'[u][f] = users[u][f]
                      ELSE /\ users'[u][f] # None
                           /\ JsonLoads(users'[u][f][1]) =
                                  [ok |-> TRUE, type |-> "list",
                                   items |-> body[f][1]]
                /\ users'[u].skills =
                      IF body.skill_names = None THEN users[u].skills
                      ELSE ResolvedFrom(body.skill_names[1], skills')
      ]_vars

\* a user with tags, URL and skills from an update that named "git" (stored
\* as "Git"), beside a user whose columns are still empty
C23_Witness ==
    /\ resp.op = "update_user"
    /\ resp.status = 200
    /\ \E u, v \in DOMAIN users :
          /\ users[u].interests # None
          /\ users[u].linkedin_url # None
          /\ Cardinality(users[u].skills) = 2
          /\ users[v].interests = None
          /\ users[v].linkedin_url = None
          /\ users[v].skills = {}

\* C30: the record a successful update_user returns for the row it has
\* written is the record get_user returns for that row
C30_UpdateAnswersAsGetUser ==
    [][\/ ~Ready
       \/ resp'.op # "update_user"
       \/ resp'.status # 200
       \/ \A u \in DOMAIN users, body \in UpdateBodies :
             update_user(u, body)
             => ResponseModel(update_user_dict(users'[u]))
                    = ResponseModel(get_user_dict(users'[u]))
      ]_vars

====
